---- MODULE Spec2Model ----
(***************************************************************************)
(* A model of the ingestion core of ci_mapping: the dedup helpers of       *)
(* utils/utils.py, the collect_mag and parse_mag steps of run_pipeline.py, *)
(* and the annotation steps that follow them.                              *)
(*                                                                         *)
(* A Python dict is modelled as the sequence of its items, <<key, value>>  *)
(* pairs in insertion order with distinct keys.  tuple(x.items()) is that  *)
(* sequence, dict(y) builds the dict back from it, and two dicts are equal *)
(* in Python (==) when they hold the same set of pairs (AttrSet).          *)
(***************************************************************************)
EXTENDS Integers, Sequences, FiniteSets, Bags, TLC

VARIABLES
    \* ---- calls of the pure helpers (utils.py)
    d,            \* the list of dicts a helper is called with
    key,          \* the key argument of the call ("" before a call)
    S,            \* the set of persisted identifiers of a filter call
    out,          \* the list the call returned
    out2,         \* unique_dicts applied to out
    fn,           \* which helper has been called: "idle" before any call
    \* ---- collect_mag
    with_doi,     \* self.with_doi
    windows,      \* number of date windows of sliding_window(2, date_range(...))
    w,            \* index of the current window, from 0
    i,            \* the query counter i, which also names the page artifact
    offset,       \* offset of the next request
    has_content,  \* the loop flag
    data,         \* the response of the request in flight (data["entities"])
    log,          \* what the API saw and what was stored, one entry per stored page
    cpc,          \* position in collect_mag
    \* ---- the page artifacts on disk, written by collect_mag, read by parse_mag
    disk,
    \* ---- parse_mag
    db,           \* committed rows, by table
    tx,           \* rows inserted in the open session and not committed yet
    loc,          \* the local lists of parse_mag
    ppc,          \* position in parse_mag
    ins,          \* number of bulk inserts the run has issued successfully
    rerun,        \* TRUE while the artifacts are those of the last committed run
    counts,       \* the row counts parse_mag has logged in this run, by table
    \* ---- the annotation steps
    ann,          \* committed annotation rows, by table
    apc,          \* the step of the flow that runs next
    \* ---- the API
    api,          \* the pages the API holds for each window, before its empty page
    \* ---- allocate_in_group and its use in fos_groups
    norm_name,    \* the fields of study of a paper, the argument lst
    ci_fos,       \* the CI fields of study, the argument group1
    ai_fos,       \* the AI fields of study, the argument group2
    type,         \* the label returned ("" before the call)
    logged,       \* the numbers of CI and AI+CI papers that fos_groups logs
    gpc           \* "idle", then "returned" or "raised", then "logged"

dedupVars   == <<d, key, S, out, out2, fn>>
collectVars == <<with_doi, windows, w, i, offset, has_content, data, log, cpc>>
parseVars   == <<db, tx, loc, ppc, ins, rerun, counts>>
annVars     == <<ann, apc>>
apiVars     == <<api>>
groupVars   == <<norm_name, ci_fos, ai_fos, type, logged, gpc>>
vars        == <<dedupVars, collectVars, disk, parseVars, annVars, apiVars, groupVars>>

----------------------------------------------------------------------------
\* Bounds of the model.

\* longest list a helper is called with
MaxLen == 3

\* most page artifacts parse_mag finds on disk
MaxPages == 3

\* most date windows of a collect_mag run
MaxWindows == 2

\* the API answers with an empty page once a run has issued this many requests
MaxCalls == 3

\* most page artifacts an earlier run has left on disk
MaxStale == 2
MaxHeld == 2

----------------------------------------------------------------------------
\* Python dicts and lists.

\* x.keys()
Keys(x) == {x[j][1] : j \in DOMAIN x}

\* k in x.keys()
HasKey(x, k) == k \in Keys(x)

\* x[k]
Get(x, k) == x[CHOOSE j \in DOMAIN x : x[j][1] = k][2]

\* the key-value pairs of x without their order: x == y in Python iff these agree
AttrSet(x) == {x[j] : j \in DOMAIN x}

\* the elements of a list
Elems(l) == {l[j] : j \in DOMAIN l}

\* every order in which the elements of a set can be iterated
Enumerations(T) ==
    {s \in [1..Cardinality(T) -> T] :
        \A a, b \in 1..Cardinality(T) : a # b => s[a] # s[b]}

\* the largest member of a non-empty set of numbers
Max(N) == CHOOSE n \in N : \A m \in N : m <= n

----------------------------------------------------------------------------
\* utils.py

\* a dedup that skips the first element of its input
unique_dicts_skip_first(l) == Enumerations(Elems(SubSeq(l, 2, Len(l))))

\* unique_dicts(d): [dict(y) for y in set(tuple(x.items()) for x in d)].
\* The set holds the item tuples, so two dicts are merged only when their
\* items agree in the same order; the list comes out in the set's iteration
\* order, which is not fixed: the operator yields every list it can return.
unique_dicts(l) == Enumerations(Elems(l))

\* {v[key]: v for v in d}: the dict built left to right, as the sequence of
\* its items <<v[key], v>>; a key seen again keeps its place and takes the
\* new value.
RECURSIVE DictByValue(_, _)
DictByValue(l, k) ==
    IF l = <<>> THEN <<>>
    ELSE LET front == DictByValue(SubSeq(l, 1, Len(l) - 1), k)
             v     == l[Len(l)]
         IN  IF \E j \in DOMAIN front : front[j][1] = Get(v, k)
             THEN [j \in DOMAIN front |->
                     IF front[j][1] = Get(v, k) THEN <<Get(v, k), v>> ELSE front[j]]
             ELSE Append(front, <<Get(v, k), v>>)

\* a key-based dedup in which the first element seen wins
unique_dicts_by_value_first(l, k) ==
    LET firsts == {j \in DOMAIN l : \A m \in 1..(j - 1) : Get(l[m], k) # Get(l[j], k)}
    IN  [m \in 1..Cardinality(firsts) |->
            l[CHOOSE j \in firsts : Cardinality({x \in firsts : x <= j}) = m]]

\* unique_dicts_by_value(d, key): list({v[key]: v for v in d}.values())
unique_dicts_by_value(l, k) ==
    LET dict == DictByValue(l, k) IN [j \in DOMAIN dict |-> dict[j][2]]

\* flatten_lists(lst): list(chain(*lst))
RECURSIVE flatten_lists(_)
flatten_lists(lst) ==
    IF lst = <<>> THEN <<>> ELSE Head(lst) \o flatten_lists(Tail(lst))

\* [d for d in items if d[key] not in ids] with the test inverted
filter_persisted_only(items, k, ids) ==
    SelectSeq(items, LAMBDA x : Get(x, k) \in ids)

\* The against-persisted filter of parse_mag, written inline four times:
\* [d for d in items if d[key] not in ids]
filter_against_persisted(items, k, ids) ==
    SelectSeq(items, LAMBDA x : Get(x, k) \notin ids)

----------------------------------------------------------------------------
\* The raw records of the API (the "entities" of a response), as dicts.
\* An author entry of "AA" carries the author and, when known, the affiliation;
\* an entry of "F" carries a field of study.

AuthorEntry(au, s) == << <<"AuId", au>>, <<"AuN", "n">>, <<"S", s>> >>

AffiliatedEntry(au, s, af, afn) ==
    AuthorEntry(au, s) \o << <<"AfId", af>>, <<"AfN", afn>> >>

FosEntry(f, fname) == << <<"FId", f>>, <<"FN", fname>> >>

\* paper 1: one affiliated author, one field of study, a journal
R1 == << <<"Id", 1>>, <<"Ti", "s">>, <<"DOI", "doi">>,
         <<"AA", << AffiliatedEntry(1, 1, 1, "x") >> >>,
         <<"F", << FosEntry(1, "x") >> >>,
         <<"J", << <<"JId", 1>>, <<"JN", "j">> >> >> >>

\* paper 2: shares author 1, affiliation 1 and field 1 with paper 1; a conference
R2 == << <<"Id", 2>>, <<"Ti", "s">>, <<"DOI", "doi">>,
         <<"AA", << AffiliatedEntry(1, 1, 1, "x"), AuthorEntry(2, 2) >> >>,
         <<"F", << FosEntry(1, "x") >> >>,
         <<"C", << <<"CN", "c">> >> >> >>

\* paper 2 again, as another response gave it: author 2 listed twice, with
\* other names for affiliation 1 and field 1; both venue keys
R3 == << <<"Id", 2>>, <<"Ti", "t">>,
         <<"AA", << AffiliatedEntry(2, 1, 1, "y"), AffiliatedEntry(2, 2, 1, "y") >> >>,
         <<"F", << FosEntry(1, "y") >> >>,
         <<"J", << <<"JId", 1>>, <<"JN", "j">> >> >>,
         <<"C", << <<"CN", "c">> >> >> >>

\* paper 3: no nested section at all
R4 == << <<"Id", 3>>, <<"Ti", "s">> >>

\* paper 4: an affiliated author and the journal of paper 1, no field of study
R5 == << <<"Id", 4>>, <<"Ti", "s">>,
         <<"AA", << AffiliatedEntry(1, 1, 1, "x") >> >>,
         <<"J", << <<"JId", 1>>, <<"JN", "j">> >> >> >>

RawRecords == {R1, R2, R3, R4}

\* lists of at most n elements of T
SeqsUpTo(T, n) == UNION {[1..m -> T] : m \in 0..n}

----------------------------------------------------------------------------
\* Calls of the helpers on lists drawn from three families of flat dicts and
\* on lists of raw records.

\* dicts with the keys a and b, in either insertion order
DictsAB ==
    UNION {{ << <<"a", 1>>, <<"b", b>> >>, << <<"b", b>>, <<"a", 1>> >> } : b \in {2, 3}}

\* dicts with the keys id and v
DictsIdV == {<< <<"id", n>>, <<"v", v>> >> : n \in {1, 2}, v \in {"x", "y"}}

Batches ==
    SeqsUpTo(DictsAB, MaxLen) \cup SeqsUpTo(DictsIdV, MaxLen)
        \cup SeqsUpTo(RawRecords, MaxLen)

\* the keys every dict of l has with a scalar value: those a key-based call can name
ScalarKeys(l) ==
    {k \in {"a", "b", "id", "v", "Id"} : \A j \in DOMAIN l : HasKey(l[j], k)}

\* tuple(x.items()) is hashable when no value of x is a list or a dict
Hashable(l) == \A j \in DOMAIN l : Keys(l[j]) \subseteq {"a", "b", "id", "v"}

\* identifiers a table may hold already
IdSets == SUBSET {1, 2, 3}

DedupIdle ==
    /\ d = <<>> /\ key = "" /\ S = {} /\ out = <<>> /\ out2 = <<>> /\ fn = "off"

CollectIdle ==
    /\ with_doi = FALSE /\ windows = 0 /\ w = 0 /\ i = 0 /\ offset = 0
    /\ has_content = FALSE /\ data = <<>> /\ log = <<>> /\ cpc = "off"

ParseIdle ==
    /\ db = <<>> /\ tx = <<>> /\ loc = <<>> /\ ppc = "off" /\ ins = 0 /\ rerun = FALSE
    /\ counts = {}

AnnIdle ==
    /\ ann = <<>> /\ apc = "off"
    /\ api = <<>>

GroupIdle ==
    /\ norm_name = <<>> /\ ci_fos = <<>> /\ ai_fos = <<>>
    /\ type = "" /\ logged = <<>> /\ gpc = "off"

\* a helper is about to be called on a list d; the pipeline is not running
InitDedup ==
    /\ d \in Batches
    /\ key = "" /\ S = {} /\ out = <<>> /\ out2 = <<>> /\ fn = "idle"
    /\ CollectIdle
    /\ disk = <<>>
    /\ ParseIdle
    /\ AnnIdle
    /\ GroupIdle

CallUniqueDicts ==
    /\ fn = "idle" /\ Hashable(d)
    /\ out' \in unique_dicts(d)
    /\ fn' = "unique_dicts"
    /\ UNCHANGED <<d, key, S, out2, collectVars, disk, parseVars, annVars, apiVars, groupVars>>

\* unique_dicts applied to its own result
CallUniqueDictsAgain ==
    /\ fn = "unique_dicts"
    /\ out2' \in unique_dicts(out)
    /\ fn' = "unique_dicts_twice"
    /\ UNCHANGED <<d, key, S, out, collectVars, disk, parseVars, annVars, apiVars, groupVars>>

CallUniqueDictsByValue ==
    /\ fn = "idle"
    /\ \E k \in ScalarKeys(d) :
         /\ key' = k
         /\ out' = unique_dicts_by_value(d, k)
    /\ fn' = "unique_dicts_by_value"
    /\ UNCHANGED <<d, S, out2, collectVars, disk, parseVars, annVars, apiVars, groupVars>>

CallFilter ==
    /\ fn = "idle"
    /\ \E k \in ScalarKeys(d) \cap {"a", "id", "Id"}, ids \in IdSets :
         /\ key' = k
         /\ S' = ids
         /\ out' = filter_against_persisted(d, k, ids)
    /\ fn' = "filter"
    /\ UNCHANGED <<d, out2, collectVars, disk, parseVars, annVars, apiVars, groupVars>>

NextDedup ==
    \/ CallUniqueDicts
    \/ CallUniqueDictsAgain
    \/ CallUniqueDictsByValue
    \/ CallFilter

\* The helpers of utils.py, each called once on a list drawn from Batches.
SpecDedup == InitDedup /\ [][NextDedup]_vars

----------------------------------------------------------------------------
\* Claims about the helpers.

\* how many elements of l equal x as Python dicts
CountEq(l, x) == Cardinality({j \in DOMAIN l : AttrSet(l[j]) = AttrSet(x)})

\* C8: unique_dicts returns exactly one dict per distinct attribute-set of its
\* input, two dicts with the same key-value pairs being the same attribute-set
\* whatever the order of their keys, and every returned dict equals an input
\* dict.
C8_OnePerAttributeSet ==
    fn = "unique_dicts" =>
        /\ \A j \in DOMAIN d : CountEq(out, d[j]) = 1
        /\ \A j \in DOMAIN out : CountEq(d, out[j]) >= 1

\* C9: unique_dicts is idempotent: unique_dicts(unique_dicts(B)) holds the same
\* elements as unique_dicts(B), each as often, the order of the list aside.
C9_UniqueDictsIdempotent ==
    fn = "unique_dicts_twice" =>
        /\ Len(out2) = Len(out)
        /\ \A j \in DOMAIN out : CountEq(out2, out[j]) = CountEq(out, out[j])

\* C9 witness: a list of three dicts, two of them equal, deduplicated twice.
C9_Witness ==
    /\ fn = "unique_dicts_twice"
    /\ Len(d) = 3 /\ Len(out) = 2 /\ Len(out2) = 2

\* C10: unique_dicts_by_value(d, key) returns exactly one element per distinct
\* value of key in d, and that element is the last element of d carrying the
\* value.
C10_LastSeenWins ==
    fn = "unique_dicts_by_value" =>
        /\ \A j \in DOMAIN d :
             Cardinality({m \in DOMAIN out : Get(out[m], key) = Get(d[j], key)}) = 1
        /\ \A m \in DOMAIN out :
             /\ \E j \in DOMAIN d : Get(d[j], key) = Get(out[m], key)
             /\ out[m] = d[Max({j \in DOMAIN d : Get(d[j], key) = Get(out[m], key)})]

\* C10 witness: [{"id":1,"v":"x"},{"id":1,"v":"y"}] by "id" gives the one
\* element with v = "y".
C10_Witness ==
    /\ fn = "unique_dicts_by_value" /\ key = "id"
    /\ d = << << <<"id", 1>>, <<"v", "x">> >>, << <<"id", 1>>, <<"v", "y">> >> >>
    /\ out = << << <<"id", 1>>, <<"v", "y">> >> >>

\* how many elements of l are x
Count(l, x) == Cardinality({j \in DOMAIN l : l[j] = x})

\* C6: the against-persisted filter returns only items whose identifier is not
\* in S, and keeps every item whose identifier is outside S, as often as the
\* batch holds it.
C6_FilterAgainstPersisted ==
    fn = "filter" =>
        /\ \A m \in DOMAIN out : Get(out[m], key) \notin S
        /\ \A j \in DOMAIN d :
             Get(d[j], key) \notin S => Count(out, d[j]) = Count(d, d[j])
        /\ \A m \in DOMAIN out : Count(d, out[m]) >= 1

\* C6 witness: a batch of raw records filtered by "Id", one dropped and one kept.
C6_Witness ==
    /\ fn = "filter" /\ key = "Id"
    /\ \E j \in DOMAIN d : Get(d[j], key) \in S
    /\ out # <<>>

----------------------------------------------------------------------------
\* collect_mag

\* query_count = 1000
query_count == 1000

\* what query_mag_api can answer with: data["entities"], with and without a DOI
ApiPages == {<<>>, <<R1>>, <<R4>>, <<R1, R4>>}

\* artifacts of an earlier run, still on disk when this run starts
StaleDisks == UNION {[1..n -> {<<R2>>}] : n \in 0..MaxStale}

\* results: the entities kept, those with a DOI when with_doi is set
Results(entities) ==
    IF with_doi THEN SelectSeq(entities, LAMBDA e : HasKey(e, "DOI")) ELSE entities

\* open(f"..._{i}.pickle", "wb") and pickle.dump: artifact n is created or replaced
WriteArtifact(files, n, content) ==
    IF n < Len(files) THEN [files EXCEPT ![n + 1] = content]
    ELSE Append(files, content)

InitCollect ==
    /\ with_doi \in BOOLEAN
    /\ windows \in 1..MaxWindows
    /\ w = 0 /\ i = 0 /\ offset = 0 /\ has_content = FALSE
    /\ data = <<>> /\ log = <<>> /\ cpc = "for"
    /\ disk \in StaleDisks
    /\ DedupIdle
    /\ ParseIdle
    /\ AnnIdle
    /\ GroupIdle

\* a window is entered with the query counter restarted as well
EnterWindowResetCounter ==
    /\ cpc = "for" /\ w < windows
    /\ has_content' = TRUE
    /\ offset' = 0
    /\ i' = 0
    /\ cpc' = "while"
    /\ UNCHANGED <<with_doi, windows, w, data, log, disk, dedupVars, parseVars, annVars, apiVars, groupVars>>

\* a window is entered without restarting the offset
EnterWindowKeepOffset ==
    /\ cpc = "for" /\ w < windows
    /\ has_content' = TRUE
    /\ cpc' = "while"
    /\ UNCHANGED <<with_doi, windows, w, i, offset, data, log, disk, dedupVars, parseVars, annVars, apiVars, groupVars>>

\* for date in sliding_window(...): has_content = True; offset = 0
EnterWindow ==
    /\ cpc = "for" /\ w < windows
    /\ has_content' = TRUE
    /\ offset' = 0
    /\ cpc' = "while"
    /\ UNCHANGED <<with_doi, windows, w, i, data, log, disk, dedupVars, parseVars, annVars, apiVars, groupVars>>

\* data = query_mag_api(...) returns a page
Query ==
    /\ cpc = "while" /\ has_content
    /\ \E page \in ApiPages :
         /\ (i >= MaxCalls => page = <<>>)
         /\ data' = page
         /\ log' = Append(log, [window |-> w, offset |-> offset, i |-> i,
                                raised |-> FALSE, entities |-> page])
    /\ cpc' = "store"
    /\ UNCHANGED <<with_doi, windows, w, i, offset, has_content, disk, dedupVars, parseVars, annVars, apiVars, groupVars>>

\* a failed request that is issued again
QueryRaisesAndRetries ==
    /\ cpc = "while" /\ has_content
    /\ Len(log) <= MaxCalls
    /\ log' = Append(log, [window |-> w, offset |-> offset, i |-> i,
                           raised |-> TRUE, entities |-> <<>>])
    /\ UNCHANGED <<with_doi, windows, w, i, offset, has_content, data, cpc, disk,
                   dedupVars, parseVars, annVars, apiVars, groupVars>>

\* query_mag_api(...) raises: nothing catches it, the step ends
QueryRaises ==
    /\ cpc = "while" /\ has_content
    /\ log' = Append(log, [window |-> w, offset |-> offset, i |-> i,
                           raised |-> TRUE, entities |-> <<>>])
    /\ cpc' = "raised"
    /\ UNCHANGED <<with_doi, windows, w, i, offset, has_content, data, disk,
                   dedupVars, parseVars, annVars, apiVars, groupVars>>

\* the rest of the loop body: filter, store, count, and test for an empty page
Store ==
    /\ cpc = "store"
    /\ disk' = WriteArtifact(disk, i, Results(data))
    /\ i' = i + 1
    /\ offset' = offset + query_count
    /\ has_content' = (Len(Results(data)) # 0)
    /\ cpc' = "while"
    /\ UNCHANGED <<with_doi, windows, w, data, log, dedupVars, parseVars, annVars, apiVars, groupVars>>

\* while has_content ends: on to the next window
LeaveWindow ==
    /\ cpc = "while" /\ ~has_content
    /\ w' = w + 1
    /\ cpc' = "for"
    /\ UNCHANGED <<with_doi, windows, i, offset, has_content, data, log, disk,
                   dedupVars, parseVars, annVars, apiVars, groupVars>>

\* the for loop is exhausted: self.next(self.parse_mag)
FinishCollect ==
    /\ cpc = "for" /\ w = windows
    /\ cpc' = "done"
    /\ UNCHANGED <<with_doi, windows, w, i, offset, has_content, data, log, disk,
                   dedupVars, parseVars, annVars, apiVars, groupVars>>

NextCollect ==
    \/ EnterWindow
    \/ Query
    \/ QueryRaises
    \/ Store
    \/ LeaveWindow
    \/ FinishCollect

\* One collect_mag run.
SpecCollect == InitCollect /\ [][NextCollect]_vars

----------------------------------------------------------------------------
\* Claims about collect_mag.

\* the requests of window v, in the order they were issued
WindowCalls(v) == SelectSeq(log, LAMBDA e : e.window = v)

\* window v has been left
WindowDone(v) == v < w

\* the page artifact a request wrote
Artifact(e) == disk[e.i + 1]

\* the request has been answered and its page stored
Stored(e) == ~e.raised /\ e.i < i

C4_RaisePropagates ==
    /\ \A j \in DOMAIN log : log[j].raised => (j = Len(log) /\ cpc = "raised")
    /\ cpc = "raised" =>
         \A j \in 1..(Len(log) - 1) :
             /\ log[j].i = j - 1
             /\ Len(disk) >= j
             /\ disk[j] = Results(log[j].entities)

\* C4 witness: the third request raises, after two pages were stored.
C4_Witness ==
    /\ cpc = "raised" /\ Len(log) = 3
    /\ disk[1] # <<>> /\ disk[2] # <<>>

----------------------------------------------------------------------------
\* parse_mag_data.py: the sub-records of one raw record.  Each parser returns
\* the rows of its table(s) and tolerates a missing nested section.

\* the list [f(x) for x in l] is written [j \in DOMAIN l |-> f(l[j])] below

\* parse_papers(response): the primary row
parse_papers(response) ==
    << <<"id", Get(response, "Id")>>, <<"title", Get(response, "Ti")>> >>

\* parse_journal(response, paper_id)
parse_journal(response, paper_id) ==
    << <<"id", Get(Get(response, "J"), "JId")>>,
       <<"journal_name", Get(Get(response, "J"), "JN")>>,
       <<"paper_id", paper_id>> >>

\* parse_conference(response, paper_id)
parse_conference(response, paper_id) ==
    << <<"paper_id", paper_id>>, <<"conference_name", Get(Get(response, "C"), "CN")>> >>

\* parse_authors(response, paper_id): (authors, paper_with_authors)
parse_authors(response, paper_id) ==
    IF ~HasKey(response, "AA") THEN << <<>>, <<>> >>
    ELSE LET aa == Get(response, "AA") IN
         << [j \in DOMAIN aa |->
                << <<"id", Get(aa[j], "AuId")>>, <<"name", Get(aa[j], "AuN")>> >>],
            [j \in DOMAIN aa |->
                << <<"paper_id", paper_id>>, <<"author_id", Get(aa[j], "AuId")>>,
                   <<"order", Get(aa[j], "S")>> >>] >>

\* parse_fos(response, paper_id): (paper_with_fos, fields_of_study)
parse_fos(response, paper_id) ==
    LET f == Get(response, "F") IN
    << [j \in DOMAIN f |->
           << <<"field_of_study_id", Get(f[j], "FId")>>, <<"paper_id", paper_id>> >>],
       [j \in DOMAIN f |->
           << <<"id", Get(f[j], "FId")>>, <<"name", Get(f[j], "FN")>> >>] >>

\* parse_affiliations(response, paper_id): (affiliations, paper_author_aff),
\* one of each per author entry that names an affiliation
parse_affiliations(response, paper_id) ==
    IF ~HasKey(response, "AA") THEN << <<>>, <<>> >>
    ELSE LET aa == SelectSeq(Get(response, "AA"), LAMBDA e : HasKey(e, "AfId")) IN
         << [j \in DOMAIN aa |->
                << <<"id", Get(aa[j], "AfId")>>, <<"affiliation", Get(aa[j], "AfN")>> >>],
            [j \in DOMAIN aa |->
                << <<"affiliation_id", Get(aa[j], "AfId")>>,
                   <<"author_id", Get(aa[j], "AuId")>>, <<"paper_id", paper_id>> >>] >>

----------------------------------------------------------------------------
\* Storage: the tables of mag_orm and the session of _create_session.

CoreTables == {"Paper", "Author", "FieldOfStudy", "Affiliation"}

\* an order that writes the author associations before the authors
InsertOrderAssociationsFirst ==
    << "Paper", "Journal", "Conference", "PaperAuthor", "Author", "FieldOfStudy",
       "PaperFieldsOfStudy", "Affiliation", "AuthorAffiliation" >>

\* the tables in the order parse_mag writes them
InsertOrder ==
    << "Paper", "Journal", "Conference", "Author", "PaperAuthor", "FieldOfStudy",
       "PaperFieldsOfStudy", "Affiliation", "AuthorAffiliation" >>

Tables == Elems(InsertOrder)

\* a list as the bag of its elements: a table keeps no order of its rows
ListToBag(l) == [x \in Elems(l) |-> Cardinality({j \in DOMAIN l : l[j] = x})]

NoRows == ListToBag(<<>>)

EmptyDb == [t \in Tables |-> NoRows]

\* {id_[0] for id_ in s.query(T.id)}
Ids(rows, k) == {Get(r, k) : r \in BagToSet(rows)}

\* the id column of a core table is its primary key: an insert of a row whose
\* id the table holds, or of two rows with one id, raises
PrimaryKeyHolds(t, rows) ==
    t \in CoreTables =>
        /\ \A r \in BagToSet(rows) : CopiesIn(r, rows) = 1
        /\ \A r1, r2 \in BagToSet(rows) : r1 # r2 => Get(r1, "id") # Get(r2, "id")
        /\ Ids(rows, "id") \cap Ids(db[t] (+) tx[t], "id") = {}

----------------------------------------------------------------------------
\* parse_mag

\* what glob finds: up to MaxPages pages of one record each, no record stored
\* twice, and the empty page the last request of a window leaves
Disks ==
    {pages \o << <<>> >> :
        pages \in {p \in SeqsUpTo({<<r>> : r \in RawRecords}, MaxPages) :
                     \A a, b \in DOMAIN p : a # b => p[a] # p[b]}}

\* one list of those unique_dicts can return: parse_mag reads its result only
\* through len() and bulk_insert_mappings, which do not depend on the order
AnyOrder(lists) == CHOOSE l \in lists : TRUE

\* data.extend(pickle.load(h)) for each file, in the order glob yields them
ReadArtifacts(order) == flatten_lists([j \in DOMAIN disk |-> disk[order[j]]])

\* the new records, their against-persisted filter left out
NewRecordsUnfiltered(raw, paper_ids) == unique_dicts_by_value(raw, "Id")

\* data = [d for d in unique_dicts_by_value(data, "Id") if d["Id"] not in paper_ids]
NewRecords(raw, paper_ids) ==
    filter_against_persisted(unique_dicts_by_value(raw, "Id"), "Id", paper_ids)

\* papers parsed only for the records that carry fields of study
PapersWithFosOnly(records) ==
    LET withF == SelectSeq(records, LAMBDA r : HasKey(r, "F")) IN
    [j \in DOMAIN withF |-> parse_papers(withF[j])]

Papers(records) == [j \in DOMAIN records |-> parse_papers(records[j])]

Journals(records) ==
    LET withJ == SelectSeq(records, LAMBDA r : HasKey(r, "J")) IN
    [j \in DOMAIN withJ |-> parse_journal(withJ[j], Get(withJ[j], "Id"))]

Conferences(records) ==
    LET withC == SelectSeq(records, LAMBDA r : HasKey(r, "C")) IN
    [j \in DOMAIN withC |-> parse_conference(withC[j], Get(withC[j], "Id"))]

\* items = [parse_authors(response, response["Id"]) for response in data]
AuthorItems(records) ==
    [j \in DOMAIN records |-> parse_authors(records[j], Get(records[j], "Id"))]

\* the authors, their against-persisted filter left out
AuthorsUnfiltered(records, author_ids) ==
    LET items == AuthorItems(records) IN
    unique_dicts_by_value(flatten_lists([j \in DOMAIN items |-> items[j][1]]), "id")

Authors(records, author_ids) ==
    LET items == AuthorItems(records) IN
    filter_against_persisted(
        unique_dicts_by_value(flatten_lists([j \in DOMAIN items |-> items[j][1]]), "id"),
        "id", author_ids)

\* the author associations deduplicated by author alone
PaperWithAuthorsByAuthor(records) ==
    LET items == AuthorItems(records) IN
    unique_dicts_by_value(flatten_lists([j \in DOMAIN items |-> items[j][2]]), "author_id")

PaperWithAuthors(records) ==
    LET items == AuthorItems(records) IN
    AnyOrder(unique_dicts(flatten_lists([j \in DOMAIN items |-> items[j][2]])))

\* items = [parse_fos(response, response["Id"]) for response in data if "F" in response.keys()]
FosItems(records) ==
    LET withF == SelectSeq(records, LAMBDA r : HasKey(r, "F")) IN
    [j \in DOMAIN withF |-> parse_fos(withF[j], Get(withF[j], "Id"))]

PaperWithFos(records) ==
    LET items == FosItems(records) IN
    AnyOrder(unique_dicts(flatten_lists([j \in DOMAIN items |-> items[j][1]])))

FieldsOfStudy(records, fos_ids) ==
    LET items == FosItems(records) IN
    filter_against_persisted(
        AnyOrder(unique_dicts(flatten_lists([j \in DOMAIN items |-> items[j][2]]))),
        "id", fos_ids)

\* items = [parse_affiliations(response, response["Id"]) for response in data]
AffiliationItems(records) ==
    [j \in DOMAIN records |-> parse_affiliations(records[j], Get(records[j], "Id"))]

Affiliations(records, aff_ids) ==
    LET items == AffiliationItems(records) IN
    filter_against_persisted(
        AnyOrder(unique_dicts(flatten_lists([j \in DOMAIN items |-> items[j][1]]))),
        "id", aff_ids)

PaperAuthorAff(records) ==
    LET items == AffiliationItems(records) IN
    AnyOrder(unique_dicts(flatten_lists([j \in DOMAIN items |-> items[j][2]])))

\* the locals of parse_mag before the step has read anything
EmptyLoc ==
    [data |-> NoRows,
     paper_ids |-> {}, author_ids |-> {}, fos_ids |-> {}, aff_ids |-> {},
     Paper |-> NoRows, Journal |-> NoRows, Conference |-> NoRows,
     Author |-> NoRows, PaperAuthor |-> NoRows, FieldOfStudy |-> NoRows,
     PaperFieldsOfStudy |-> NoRows, Affiliation |-> NoRows,
     AuthorAffiliation |-> NoRows]

\* the locals with the venue and association rows built from every record
\* read, persisted or not
ParsedChildrenOfAll(raw) ==
    LET paper_ids  == Ids(db["Paper"], "id")
        author_ids == Ids(db["Author"], "id")
        fos_ids    == Ids(db["FieldOfStudy"], "id")
        aff_ids    == Ids(db["Affiliation"], "id")
        records    == NewRecords(raw, paper_ids)
        every      == unique_dicts_by_value(raw, "Id")
    IN  [data |-> ListToBag(records),
         paper_ids |-> paper_ids, author_ids |-> author_ids,
         fos_ids |-> fos_ids, aff_ids |-> aff_ids,
         Paper |-> ListToBag(Papers(records)),
         Journal |-> ListToBag(Journals(every)),
         Conference |-> ListToBag(Conferences(every)),
         Author |-> ListToBag(Authors(records, author_ids)),
         PaperAuthor |-> ListToBag(PaperWithAuthors(every)),
         FieldOfStudy |-> ListToBag(FieldsOfStudy(records, fos_ids)),
         PaperFieldsOfStudy |-> ListToBag(PaperWithFos(every)),
         Affiliation |-> ListToBag(Affiliations(records, aff_ids)),
         AuthorAffiliation |-> ListToBag(PaperAuthorAff(every))]

\* The locals once parsing has completed, for the records read in some order.
\* Each list is kept under the name of the table it is inserted into (papers
\* as Paper, paper_with_authors as PaperAuthor, ...), as the bag of its rows.
Parsed(raw) ==
    LET paper_ids  == Ids(db["Paper"], "id")
        author_ids == Ids(db["Author"], "id")
        fos_ids    == Ids(db["FieldOfStudy"], "id")
        aff_ids    == Ids(db["Affiliation"], "id")
        records    == NewRecords(raw, paper_ids)
    IN  [data |-> ListToBag(records),
         paper_ids |-> paper_ids, author_ids |-> author_ids,
         fos_ids |-> fos_ids, aff_ids |-> aff_ids,
         Paper |-> ListToBag(Papers(records)),
         Journal |-> ListToBag(Journals(records)),
         Conference |-> ListToBag(Conferences(records)),
         Author |-> ListToBag(Authors(records, author_ids)),
         PaperAuthor |-> ListToBag(PaperWithAuthors(records)),
         FieldOfStudy |-> ListToBag(FieldsOfStudy(records, fos_ids)),
         PaperFieldsOfStudy |-> ListToBag(PaperWithFos(records)),
         Affiliation |-> ListToBag(Affiliations(records, aff_ids)),
         AuthorAffiliation |-> ListToBag(PaperAuthorAff(records))]

\* start has created the tables; collect_mag has left its artifacts
InitParse ==
    /\ disk \in Disks
    /\ db = EmptyDb /\ tx = EmptyDb /\ loc = EmptyLoc
    /\ ppc = "start" /\ ins = 0 /\ rerun = FALSE
    /\ counts = {}
    /\ DedupIdle
    /\ CollectIdle
    /\ AnnIdle
    /\ GroupIdle

\* logger.info(f"Completed parsing ...: {len(...)}"), once per list
LoggedCounts(lists) == {<<t, BagCardinality(lists[t])>> : t \in Tables}

\* lines 277-354: open a session, read the artifacts and the persisted ids,
\* build every list and log its length
Parse ==
    /\ ppc = "start"
    /\ \E order \in Enumerations(DOMAIN disk) : loc' = Parsed(ReadArtifacts(order))
    /\ counts' = LoggedCounts(loc')
    /\ ppc' = "insert"
    /\ UNCHANGED <<db, tx, ins, rerun, disk, dedupVars, collectVars, annVars, apiVars, groupVars>>

\* a bulk insert that is committed at once
BulkInsertAutocommit(t) ==
    /\ ppc = "insert" /\ InsertOrder[ins + 1] = t
    /\ PrimaryKeyHolds(t, loc[t])
    /\ db' = [db EXCEPT ![t] = @ (+) loc[t]]
    /\ ins' = ins + 1
    /\ ppc' = IF ins + 1 = Len(InsertOrder) THEN "commit" ELSE "insert"
    /\ UNCHANGED <<tx, loc, rerun, disk, counts, dedupVars, collectVars, annVars, apiVars, groupVars>>

\* s.bulk_insert_mappings(T, rows): the rows join the open transaction
BulkInsert(t) ==
    /\ ppc = "insert" /\ InsertOrder[ins + 1] = t
    /\ PrimaryKeyHolds(t, loc[t])
    /\ tx' = [tx EXCEPT ![t] = @ (+) loc[t]]
    /\ ins' = ins + 1
    /\ ppc' = IF ins + 1 = Len(InsertOrder) THEN "commit" ELSE "insert"
    /\ UNCHANGED <<db, loc, rerun, disk, counts, dedupVars, collectVars, annVars, apiVars, groupVars>>

InsertPaper              == BulkInsert("Paper")
InsertJournal            == BulkInsert("Journal")
InsertConference         == BulkInsert("Conference")
InsertAuthor             == BulkInsert("Author")
InsertPaperAuthor        == BulkInsert("PaperAuthor")
InsertFieldOfStudy       == BulkInsert("FieldOfStudy")
InsertPaperFieldsOfStudy == BulkInsert("PaperFieldsOfStudy")
InsertAffiliation        == BulkInsert("Affiliation")
InsertAuthorAffiliation  == BulkInsert("AuthorAffiliation")

\* a failed insert that removes the page artifacts
InsertRaisesAndCleansUp ==
    /\ ppc = "insert"
    /\ tx' = EmptyDb
    /\ disk' = <<>>
    /\ ppc' = "failed"
    /\ UNCHANGED <<db, loc, ins, rerun, counts, dedupVars, collectVars, annVars, apiVars, groupVars>>

\* a bulk insert raises (a violated key, a lost connection): the step ends with
\* its session never committed, and the transaction is rolled back
InsertRaises ==
    /\ ppc = "insert"
    /\ tx' = EmptyDb
    /\ ppc' = "failed"
    /\ UNCHANGED <<db, loc, ins, rerun, disk, counts, dedupVars, collectVars, annVars, apiVars, groupVars>>

\* s.commit()
Commit ==
    /\ ppc = "commit"
    /\ db' = [t \in Tables |-> db[t] (+) tx[t]]
    /\ tx' = EmptyDb
    /\ ppc' = "done"
    /\ rerun' = TRUE
    /\ UNCHANGED <<loc, ins, disk, counts, dedupVars, collectVars, annVars, apiVars, groupVars>>

\* s.commit() raises
CommitRaises ==
    /\ ppc = "commit"
    /\ tx' = EmptyDb
    /\ ppc' = "failed"
    /\ UNCHANGED <<db, loc, ins, rerun, disk, counts, dedupVars, collectVars, annVars, apiVars, groupVars>>

\* the pipeline is run again and parse_mag finds the same artifacts
RunAgain ==
    /\ ppc \in {"done", "failed"}
    /\ loc' = EmptyLoc /\ ins' = 0 /\ counts' = {}
    /\ ppc' = "start"
    /\ UNCHANGED <<db, tx, rerun, disk, dedupVars, collectVars, annVars, apiVars, groupVars>>

\* the pipeline is run again and collect_mag has left other artifacts
NewArtifacts ==
    /\ ppc \in {"done", "failed"}
    /\ disk' \in Disks \ {disk}
    /\ rerun' = FALSE
    /\ loc' = EmptyLoc /\ ins' = 0 /\ counts' = {}
    /\ ppc' = "start"
    /\ UNCHANGED <<db, tx, dedupVars, collectVars, annVars, apiVars, groupVars>>

NextParse ==
    \/ Parse
    \/ InsertPaper
    \/ InsertJournal
    \/ InsertConference
    \/ InsertAuthor
    \/ InsertPaperAuthor
    \/ InsertFieldOfStudy
    \/ InsertPaperFieldsOfStudy
    \/ InsertAffiliation
    \/ InsertAuthorAffiliation
    \/ InsertRaises
    \/ Commit
    \/ CommitRaises
    \/ RunAgain
    \/ NewArtifacts

\* Runs of parse_mag against one database, over artifacts that change or stay.
SpecParse == InitParse /\ [][NextParse]_vars

----------------------------------------------------------------------------
\* Claims about parse_mag.

\* the rows hold each identifier once
DistinctIds(rows) ==
    /\ \A r \in BagToSet(rows) : CopiesIn(r, rows) = 1
    /\ \A r1, r2 \in BagToSet(rows) : r1 # r2 => Get(r1, "id") # Get(r2, "id")

\* the run is at the bulk insert of table t
AtInsertOf(t) == ppc = "insert" /\ InsertOrder[ins + 1] = t

\* C1: no core table holds two rows with one identifier, and the list a run
\* passes to the bulk insert of a core table holds no identifier twice and
\* none that is persisted.
C1_NoDuplicateIds ==
    \A t \in CoreTables :
        /\ DistinctIds(db[t])
        /\ AtInsertOf(t) =>
             /\ DistinctIds(loc[t])
             /\ Ids(loc[t], "id") \cap Ids(db[t], "id") = {}

\* C2: storage changes only when the commit succeeds, and then every list of
\* the run is added to its table; a run that fails leaves storage as it was.
C2_AllOrNothing ==
    [][ /\ (ppc' = "failed" => db' = db)
        /\ (db' # db => ppc = "commit" /\ ppc' = "done")
        /\ (ppc = "commit" /\ ppc' = "done" =>
              \A t \in Tables : db'[t] = db[t] (+) loc[t]) ]_vars

\* C2 witness: a run that failed after five bulk inserts of a non-empty batch,
\* with nothing of it in storage.
C2_Witness ==
    /\ ppc = "failed" /\ ins = 5
    /\ loc["Paper"] # NoRows /\ loc["PaperAuthor"] # NoRows
    /\ db = EmptyDb

\* every list of the run is empty
ListsEmpty == \A t \in Tables : loc[t] = NoRows

\* C5: a run over the artifacts of the last committed run builds only empty
\* lists, inserts nothing and leaves storage as it is.
C5_SecondRunAddsNothing ==
    [][rerun => (db' = db /\ tx' = EmptyDb /\ ListsEmpty')]_vars

\* C5 witness: a second run over the same artifacts has committed, after a
\* first run that stored papers.
C5_Witness ==
    /\ rerun /\ ppc = "done" /\ ListsEmpty
    /\ loc.paper_ids # {} /\ loc.author_ids # {}

\* the author identifiers occurring in the new records of the run
AuthorIdsOfData ==
    UNION {{Get(e, "AuId") : e \in Elems(Get(r, "AA"))} :
             r \in {x \in BagToSet(loc.data) : HasKey(x, "AA")}}

\* C7: the Author rows of a run are one row for each author identifier of the
\* run's new records that storage does not hold, and after the commit these
\* rows are in storage, once each, beside the authors held before.
C7_NewAuthorsOnly ==
    /\ ppc \in {"insert", "commit", "done"} =>
         /\ DistinctIds(loc["Author"])
         /\ Ids(loc["Author"], "id") = AuthorIdsOfData \ loc.author_ids
    /\ ppc = "done" =>
         /\ DistinctIds(db["Author"])
         /\ \A r \in BagToSet(loc["Author"]) : BagIn(r, db["Author"])
         /\ Ids(db["Author"], "id") = loc.author_ids \cup Ids(loc["Author"], "id")

\* C7 witness: three raw records, two of which share author 1, author 1 being
\* in storage already; the run commits exactly one new author, author 2.
C7_Witness ==
    /\ ppc = "done"
    /\ Elems(disk) = {<<R1>>, <<R2>>, <<R4>>, <<>>} /\ Len(disk) = 4
    /\ loc.author_ids = {1}
    /\ BagCardinality(loc["Author"]) = 1
    /\ Ids(loc["Author"], "id") = {2}

\* the records of the run as a list
DataList == AnyOrder(Enumerations(BagToSet(loc.data)))

\* the tables of association rows
AssociationTables == {"PaperAuthor", "PaperFieldsOfStudy", "AuthorAffiliation"}

\* every association row the parsers derive from the records of the run
AssociationRows(t) ==
    CASE t = "PaperAuthor" ->
           LET items == AuthorItems(DataList) IN
           flatten_lists([j \in DOMAIN items |-> items[j][2]])
      [] t = "PaperFieldsOfStudy" ->
           LET items == FosItems(DataList) IN
           flatten_lists([j \in DOMAIN items |-> items[j][1]])
      [] t = "AuthorAffiliation" ->
           LET items == AffiliationItems(DataList) IN
           flatten_lists([j \in DOMAIN items |-> items[j][2]])

\* the run has built its lists
ListsBuilt == ppc \in {"insert", "commit", "done"}

\* C11: of the association rows that agree on every attribute exactly one is
\* written, and rows that differ in an attribute are all written: each
\* association list holds every derived row, once, and so does storage after
\* the commit.
C11_AssociationsByFullTuple ==
    ListsBuilt =>
        \A t \in AssociationTables :
            /\ BagToSet(loc[t]) = Elems(AssociationRows(t))
            /\ \A r \in BagToSet(loc[t]) : CopiesIn(r, loc[t]) = 1
            /\ ppc = "done" => \A r \in BagToSet(loc[t]) : CopiesIn(r, db[t]) = 1

\* C11 witness: paper 2 lists author 2 twice, at positions 1 and 2, with one
\* affiliation: both author associations are committed, and one affiliation
\* association for the two equal ones.
C11_Witness ==
    /\ ppc = "done"
    /\ BagIn(<< <<"paper_id", 2>>, <<"author_id", 2>>, <<"order", 1>> >>, db["PaperAuthor"])
    /\ BagIn(<< <<"paper_id", 2>>, <<"author_id", 2>>, <<"order", 2>> >>, db["PaperAuthor"])
    /\ Len(AssociationRows("AuthorAffiliation")) = 2
    /\ BagCardinality(loc["AuthorAffiliation"]) = 1

\* the rows of table t whose parent is paper p
RowsOfPaper(t, p) == {r \in BagToSet(loc[t]) : Get(r, "paper_id") = p}

\* C12: a raw record gives zero or one venue row: a journal row when it has
\* the key J, a conference row when it has the key C, and never both.
C12_ZeroOrOneVenue ==
    ListsBuilt =>
        \A r \in BagToSet(loc.data) :
            LET js == RowsOfPaper("Journal", Get(r, "Id"))
                cs == RowsOfPaper("Conference", Get(r, "Id"))
            IN  /\ (HasKey(r, "J") => js # {})
                /\ (HasKey(r, "C") => cs # {})
                /\ Cardinality(js) + Cardinality(cs) <= 1

\* C14: a record without a nested section gives no row for that section and
\* still gives its Paper row.
C14_MissingSections ==
    ListsBuilt =>
        \A r \in BagToSet(loc.data) :
            LET p == Get(r, "Id") IN
            /\ \E row \in BagToSet(loc["Paper"]) : Get(row, "id") = p
            /\ ~HasKey(r, "J") => RowsOfPaper("Journal", p) = {}
            /\ ~HasKey(r, "C") => RowsOfPaper("Conference", p) = {}
            /\ ~HasKey(r, "F") => RowsOfPaper("PaperFieldsOfStudy", p) = {}
            /\ ~HasKey(r, "AA") =>
                 /\ RowsOfPaper("PaperAuthor", p) = {}
                 /\ RowsOfPaper("AuthorAffiliation", p) = {}

\* C14 witness: the record without any nested section is parsed and committed
\* beside a record that has them all.
C14_Witness ==
    /\ ppc = "done"
    /\ BagToSet(loc.data) = {R1, R4}
    /\ \E row \in BagToSet(db["Paper"]) : Get(row, "id") = 3
    /\ RowsOfPaper("PaperAuthor", 3) = {}

\* the entity tables an association table refers to, with the referring column
References(t) ==
    CASE t = "PaperAuthor" -> {<<"Paper", "paper_id">>, <<"Author", "author_id">>}
      [] t = "PaperFieldsOfStudy" ->
           {<<"Paper", "paper_id">>, <<"FieldOfStudy", "field_of_study_id">>}
      [] t = "AuthorAffiliation" ->
           {<<"Paper", "paper_id">>, <<"Author", "author_id">>,
            <<"Affiliation", "affiliation_id">>}

\* the position of table t in the write sequence
InsertPosition(t) == CHOOSE n \in DOMAIN InsertOrder : InsertOrder[n] = t

\* C18: each association table is written after the entity tables it refers
\* to, so the session never holds an association row while an entity row of
\* the run that it refers to is still unwritten.
C18_EntitiesBeforeAssociations ==
    \A t \in AssociationTables : \A ref \in References(t) :
        /\ InsertPosition(ref[1]) < InsertPosition(t)
        /\ \A r \in BagToSet(tx[t]) :
             Get(r, ref[2]) \in Ids(loc[ref[1]], "id") =>
                 Get(r, ref[2]) \in Ids(tx[ref[1]], "id")

\* C18 witness: the author associations are in the session, with the papers
\* and the authors they refer to.
C18_Witness ==
    /\ ppc = "insert" /\ ins = 5
    /\ tx["PaperAuthor"] # NoRows /\ tx["Author"] # NoRows /\ tx["Paper"] # NoRows

\* the tables of venue rows
VenueTables == {"Journal", "Conference"}

\* C20: every venue row and every association row of a run has as parent a
\* paper that the run inserts and that was not persisted before the run.
C20_ChildrenOfNewPapers ==
    ListsBuilt =>
        \A t \in VenueTables \cup AssociationTables : \A r \in BagToSet(loc[t]) :
            /\ Get(r, "paper_id") \in Ids(loc["Paper"], "id")
            /\ Get(r, "paper_id") \notin loc.paper_ids

\* C20 witness: a run over a persisted paper and a new one has committed the
\* venue and the associations of the new paper only.
C20_Witness ==
    /\ ppc = "done"
    /\ loc.paper_ids = {1}
    /\ Elems(disk) = {<<R1>>, <<R2>>, <<>>}
    /\ Ids(loc["Paper"], "id") = {2}
    /\ loc["Conference"] # NoRows /\ loc["PaperAuthor"] # NoRows

\* C19: the k-th request of a run, counted from 0 across the windows, writes
\* artifact k, and its page is on disk before the next request goes out.
C19_ArtifactIndexPerCall ==
    /\ \A j \in DOMAIN log : log[j].i = j - 1
    /\ \A j \in DOMAIN log :
         j < Len(log) => /\ Stored(log[j])
                         /\ Len(disk) >= j
                         /\ disk[j] = Results(log[j].entities)
    /\ i \in {Len(log), Len(log) - 1}

\* C19 witness: a finished run of two windows, the second of which wrote
\* artifacts 2 and 3.
C19_Witness ==
    /\ cpc = "done" /\ windows = 2 /\ Len(log) = 4
    /\ log[3].window = 1 /\ log[3].i = 2 /\ log[3].offset = 0
    /\ disk[3] # <<>>

\* the rows of table t that the run has committed
Written(t) == IF ppc = "done" THEN BagCardinality(loc[t]) ELSE 0

\* the run has ended, with or without its commit
RunEnded == ppc \in {"done", "failed"}

\* C13: a count that parse_mag has logged for a table equals the number of
\* rows of that table the run has committed, however the run ended.
C13_CountsMatchWrites ==
    RunEnded => \A c \in counts : c[2] = Written(c[1])

-----------------------------------------------------------------------------
\* The annotation steps, each run after parse_mag has committed

AnnotationTables ==
    {"FosMetadata", "CoreControlGroup", "AffiliationLocation", "OpenAccess",
     "AffiliationType"}

EmptyAnn == [t \in AnnotationTables |-> {}]

\* the column that names the annotated entity
AnnKey(t) == IF t = "AffiliationLocation" THEN "affiliation_id" ELSE "id"

\* the identifiers that table t annotates
Annotated(t) == {Get(r, AnnKey(t)) : r \in ann[t]}

\* self.oa_journals and self.non_industry, the seed lists
oa_journals == {"j"}
non_industry == {"x"}

_is_open_access(name) == IF name \in oa_journals THEN 1 ELSE 0

_find_non_industry_affiliations(name) ==
    IF \E val \in non_industry : val = name THEN 1 ELSE 0

\* the batches of new records parse_mag finds in a run of the flow
AnnBatches == {<<>>, <<R4>>, <<R5>>, <<R4, R5>>, <<R1>>}

\* the flow is started on empty tables
InitAnnotate ==
    /\ db = EmptyDb /\ tx = EmptyDb /\ loc = EmptyLoc
    /\ ppc = "off" /\ ins = 0 /\ rerun = FALSE /\ counts = {}
    /\ ann = EmptyAnn /\ apc = "parse_mag"
    /\ api = <<>>
    /\ GroupIdle
    /\ disk = <<>>
    /\ DedupIdle
    /\ CollectIdle

\* parse_mag as one step of the flow: it commits every list, or raises
ParseMag ==
    /\ apc = "parse_mag"
    /\ \E raw \in AnnBatches :
         LET lists == Parsed(raw) IN
         IF \A t \in Tables : PrimaryKeyHolds(t, lists[t])
         THEN /\ db' = [t \in Tables |-> db[t] (+) lists[t]]
              /\ apc' = "collect_fields_of_study_level"
         ELSE /\ db' = db
              /\ apc' = "failed"
    /\ UNCHANGED <<tx, loc, ppc, ins, rerun, counts, ann, disk, dedupVars, collectVars, apiVars, groupVars>>

\* a row is added and committed for each field of study without metadata that
\* the API answers for
CollectFieldsOfStudyLevel ==
    /\ apc = "collect_fields_of_study_level"
    /\ LET fields_of_study_ids == Ids(db["FieldOfStudy"], "id") \ Annotated("FosMetadata") IN
       \E answered \in SUBSET fields_of_study_ids :
         ann' = [ann EXCEPT !["FosMetadata"] =
                    @ \cup {<< <<"id", f>>, <<"level", 1>> >> : f \in answered}]
    /\ apc' = "fos_groups"
    /\ UNCHANGED <<parseVars, disk, dedupVars, collectVars, apiVars, groupVars>>

\* s.query(CoreControlGroup).delete(); s.commit()
FosGroupsDelete ==
    /\ apc = "fos_groups"
    /\ ann' = [ann EXCEPT !["CoreControlGroup"] = {}]
    /\ apc' = "fos_groups_allocate"
    /\ UNCHANGED <<parseVars, disk, dedupVars, collectVars, apiVars, groupVars>>

\* allocate_in_group takes lst, group1 and group2 and is applied with
\* args=([self.fos_subset]): the first paper with fields of study raises a
\* TypeError; without such a paper nothing is allocated
FosGroupsAllocate ==
    /\ apc = "fos_groups_allocate"
    /\ apc' = IF Ids(db["PaperFieldsOfStudy"], "paper_id") = {}
              THEN "geocode_affiliation" ELSE "failed"
    /\ UNCHANGED <<ann, parseVars, disk, dedupVars, collectVars, apiVars, groupVars>>

\* a row is added and committed for each affiliation without a location that
\* place_by_name finds
GeocodeAffiliation ==
    /\ apc = "geocode_affiliation"
    /\ LET queries == Ids(db["Affiliation"], "id") \ Annotated("AffiliationLocation") IN
       \E found \in SUBSET queries :
         ann' = [ann EXCEPT !["AffiliationLocation"] =
                    @ \cup {<< <<"place", "p">>, <<"affiliation_id", a>> >> : a \in found}]
    /\ apc' = "open_access_journals"
    /\ UNCHANGED <<parseVars, disk, dedupVars, collectVars, apiVars, groupVars>>

\* s.query(OpenAccess).delete(); s.commit()
OpenAccessDelete ==
    /\ apc = "open_access_journals"
    /\ ann' = [ann EXCEPT !["OpenAccess"] = {}]
    /\ apc' = "open_access_insert"
    /\ UNCHANGED <<parseVars, disk, dedupVars, collectVars, apiVars, groupVars>>

\* journal_access, inserted and committed
OpenAccessInsert ==
    /\ apc = "open_access_insert"
    /\ ann' = [ann EXCEPT !["OpenAccess"] =
                  @ \cup {<< <<"id", Get(j, "id")>>,
                             <<"open_access", _is_open_access(Get(j, "journal_name"))>> >> :
                          j \in BagToSet(db["Journal"])}]
    /\ apc' = "affiliation_type"
    /\ UNCHANGED <<parseVars, disk, dedupVars, collectVars, apiVars, groupVars>>

\* s.query(AffiliationType).delete(); s.commit()
AffiliationTypeDelete ==
    /\ apc = "affiliation_type"
    /\ ann' = [ann EXCEPT !["AffiliationType"] = {}]
    /\ apc' = "affiliation_type_insert"
    /\ UNCHANGED <<parseVars, disk, dedupVars, collectVars, apiVars, groupVars>>

\* aff_types of the affiliations without a type, inserted and committed
AffiliationTypeInsert ==
    /\ apc = "affiliation_type_insert"
    /\ ann' = [ann EXCEPT !["AffiliationType"] =
                  @ \cup {<< <<"id", Get(a, "id")>>,
                             <<"type", _find_non_industry_affiliations(Get(a, "affiliation"))>> >> :
                          a \in {x \in BagToSet(db["Affiliation"]) :
                                   Get(x, "id") \notin Annotated("AffiliationType")}}]
    /\ apc' = "end"
    /\ UNCHANGED <<parseVars, disk, dedupVars, collectVars, apiVars, groupVars>>

\* a step raises (an API or the database fails): the flow stops there
StepRaises ==
    /\ apc \notin {"off", "end", "failed"}
    /\ apc' = "failed"
    /\ UNCHANGED <<ann, parseVars, disk, dedupVars, collectVars, apiVars, groupVars>>

\* the flow is run again
RunFlowAgain ==
    /\ apc \in {"end", "failed"}
    /\ apc' = "parse_mag"
    /\ UNCHANGED <<ann, parseVars, disk, dedupVars, collectVars, apiVars, groupVars>>

NextAnnotate ==
    \/ ParseMag
    \/ CollectFieldsOfStudyLevel
    \/ FosGroupsDelete
    \/ FosGroupsAllocate
    \/ GeocodeAffiliation
    \/ OpenAccessDelete
    \/ OpenAccessInsert
    \/ AffiliationTypeDelete
    \/ AffiliationTypeInsert
    \/ StepRaises
    \/ RunFlowAgain

\* Runs of the flow from parse_mag to affiliation_type against one database.
SpecAnnotate == InitAnnotate /\ [][NextAnnotate]_vars

\* C15: an annotation step writes a row only for an identifier that has no row
\* of that kind yet, and no step deletes or replaces an annotation row.
C15_AnnotationsOnlyAdded ==
    [][\A t \in AnnotationTables :
         /\ ann[t] \subseteq ann'[t]
         /\ \A r \in ann'[t] \ ann[t] : Get(r, AnnKey(t)) \notin Annotated(t)]_vars

-----------------------------------------------------------------------------
\* parse_mag, statement by statement

\* the locals of parse_mag: the lists, and the values in between
EmptyStepLoc ==
    EmptyLoc @@ [unread |-> {}, raw |-> <<>>, tmp |-> <<>>, records |-> <<>>,
                 items |-> <<>>, filtered |-> {}]

\* the i-th component of each element of items, as one list
Component(items, n) == flatten_lists([j \in DOMAIN items |-> items[j][n]])

\* a list that still holds the duplicates of the batch
NotDeduplicated(l, k) == l

\* the within-batch dedup of a list of rows: by the key k, or by the full
\* tuple when k is ""
Deduplicated(l, k) ==
    IF k = "" THEN AnyOrder(unique_dicts(l)) ELSE unique_dicts_by_value(l, k)

\* lines 277-280: the session is open and glob has listed the artifacts
OpenSession ==
    /\ ppc = "start"
    /\ loc' = [EmptyStepLoc EXCEPT !.unread = DOMAIN disk]
    /\ counts' = {}
    /\ ppc' = "read"
    /\ UNCHANGED <<db, tx, ins, rerun, disk, dedupVars, collectVars, annVars, apiVars, groupVars>>

\* lines 280-283: data.extend(pickle.load(h)) for the file glob yields next
ReadFile ==
    /\ ppc = "read"
    /\ \E j \in loc.unread :
         loc' = [loc EXCEPT !.unread = @ \ {j}, !.raw = @ \o disk[j]]
    /\ UNCHANGED <<ppc, counts, db, tx, ins, rerun, disk, dedupVars, collectVars, annVars, apiVars, groupVars>>

\* lines 286-289: the identifiers storage holds
ReadIds ==
    /\ ppc = "read" /\ loc.unread = {}
    /\ loc' = [loc EXCEPT !.paper_ids  = Ids(db["Paper"], "id"),
                          !.author_ids = Ids(db["Author"], "id"),
                          !.fos_ids    = Ids(db["FieldOfStudy"], "id"),
                          !.aff_ids    = Ids(db["Affiliation"], "id")]
    /\ ppc' = "dedup_papers"
    /\ UNCHANGED <<counts, db, tx, ins, rerun, disk, dedupVars, collectVars, annVars, apiVars, groupVars>>

\* line 293: unique_dicts_by_value(data, "Id")
DedupPapers ==
    /\ ppc = "dedup_papers"
    /\ loc' = [loc EXCEPT !.tmp = Deduplicated(loc.raw, "Id")]
    /\ counts' = counts
    /\ ppc' = "filter_papers"
    /\ UNCHANGED <<db, tx, ins, rerun, disk, dedupVars, collectVars, annVars, apiVars, groupVars>>

\* lines 292-295: data, the records whose Id is not persisted
FilterPapers ==
    /\ ppc = "filter_papers"
    /\ loc' = [loc EXCEPT !.records = filter_against_persisted(loc.tmp, "Id", loc.paper_ids),
                          !.data = ListToBag(filter_against_persisted(loc.tmp, "Id", loc.paper_ids)),
                          !.tmp = <<>>, !.filtered = @ \cup {"Paper"}]
    /\ counts' = counts
    /\ ppc' = "papers"
    /\ UNCHANGED <<db, tx, ins, rerun, disk, dedupVars, collectVars, annVars, apiVars, groupVars>>

\* lines 297-298: papers
ParsePapers ==
    /\ ppc = "papers"
    /\ loc' = [loc EXCEPT !.Paper = ListToBag(Papers(loc.records))]
    /\ counts' = counts \cup {<<"Paper", Len(Papers(loc.records))>>}
    /\ ppc' = "journals"
    /\ UNCHANGED <<db, tx, ins, rerun, disk, dedupVars, collectVars, annVars, apiVars, groupVars>>

\* lines 300-305: journals
ParseJournals ==
    /\ ppc = "journals"
    /\ loc' = [loc EXCEPT !.Journal = ListToBag(Journals(loc.records))]
    /\ counts' = counts \cup {<<"Journal", Len(Journals(loc.records))>>}
    /\ ppc' = "conferences"
    /\ UNCHANGED <<db, tx, ins, rerun, disk, dedupVars, collectVars, annVars, apiVars, groupVars>>

\* lines 307-312: conferences
ParseConferences ==
    /\ ppc = "conferences"
    /\ loc' = [loc EXCEPT !.Conference = ListToBag(Conferences(loc.records))]
    /\ counts' = counts \cup {<<"Conference", Len(Conferences(loc.records))>>}
    /\ ppc' = "author_items"
    /\ UNCHANGED <<db, tx, ins, rerun, disk, dedupVars, collectVars, annVars, apiVars, groupVars>>

\* line 315: items of parse_authors
ParseAuthors ==
    /\ ppc = "author_items"
    /\ loc' = [loc EXCEPT !.items = AuthorItems(loc.records)]
    /\ counts' = counts
    /\ ppc' = "dedup_authors"
    /\ UNCHANGED <<db, tx, ins, rerun, disk, dedupVars, collectVars, annVars, apiVars, groupVars>>

\* lines 318-320: unique_dicts_by_value(flatten_lists([d[0] for d in items]), "id")
DedupAuthors ==
    /\ ppc = "dedup_authors"
    /\ loc' = [loc EXCEPT !.tmp = Deduplicated(Component(loc.items, 1), "id")]
    /\ counts' = counts
    /\ ppc' = "filter_authors"
    /\ UNCHANGED <<db, tx, ins, rerun, disk, dedupVars, collectVars, annVars, apiVars, groupVars>>

\* lines 316-322: authors, those whose id is not persisted
FilterAuthors ==
    /\ ppc = "filter_authors"
    /\ loc' = [loc EXCEPT !.Author = ListToBag(filter_against_persisted(loc.tmp, "id", loc.author_ids)),
                          !.tmp = <<>>, !.filtered = @ \cup {"Author"}]
    /\ counts' = counts
    /\ ppc' = "paper_with_authors"
    /\ UNCHANGED <<db, tx, ins, rerun, disk, dedupVars, collectVars, annVars, apiVars, groupVars>>

\* lines 324-326: paper_with_authors; the two counts are logged
DedupPaperWithAuthors ==
    /\ ppc = "paper_with_authors"
    /\ loc' = [loc EXCEPT !.PaperAuthor = ListToBag(Deduplicated(Component(loc.items, 2), ""))]
    /\ counts' = counts \cup {<<"Author", BagCardinality(loc["Author"])>>,
                              <<"PaperAuthor", Len(Deduplicated(Component(loc.items, 2), ""))>>}
    /\ ppc' = "fos_items"
    /\ UNCHANGED <<db, tx, ins, rerun, disk, dedupVars, collectVars, annVars, apiVars, groupVars>>

\* lines 329-333: items of parse_fos
ParseFos ==
    /\ ppc = "fos_items"
    /\ loc' = [loc EXCEPT !.items = FosItems(loc.records)]
    /\ counts' = counts
    /\ ppc' = "paper_with_fos"
    /\ UNCHANGED <<db, tx, ins, rerun, disk, dedupVars, collectVars, annVars, apiVars, groupVars>>

\* line 334: paper_with_fos
DedupPaperWithFos ==
    /\ ppc = "paper_with_fos"
    /\ loc' = [loc EXCEPT !.PaperFieldsOfStudy = ListToBag(Deduplicated(Component(loc.items, 1), ""))]
    /\ counts' = counts
    /\ ppc' = "dedup_fos"
    /\ UNCHANGED <<db, tx, ins, rerun, disk, dedupVars, collectVars, annVars, apiVars, groupVars>>

\* line 337: unique_dicts(flatten_lists([d[1] for d in items]))
DedupFos ==
    /\ ppc = "dedup_fos"
    /\ loc' = [loc EXCEPT !.tmp = Deduplicated(Component(loc.items, 2), "")]
    /\ counts' = counts
    /\ ppc' = "filter_fos"
    /\ UNCHANGED <<db, tx, ins, rerun, disk, dedupVars, collectVars, annVars, apiVars, groupVars>>

\* lines 335-341: fields_of_study, those whose id is not persisted; the two
\* counts are logged
FilterFos ==
    /\ ppc = "filter_fos"
    /\ loc' = [loc EXCEPT !.FieldOfStudy =
                              ListToBag(filter_against_persisted(loc.tmp, "id", loc.fos_ids)),
                          !.tmp = <<>>, !.filtered = @ \cup {"FieldOfStudy"}]
    /\ counts' = counts \cup
         {<<"FieldOfStudy", Len(filter_against_persisted(loc.tmp, "id", loc.fos_ids))>>,
          <<"PaperFieldsOfStudy", BagCardinality(loc["PaperFieldsOfStudy"])>>}
    /\ ppc' = "aff_items"
    /\ UNCHANGED <<db, tx, ins, rerun, disk, dedupVars, collectVars, annVars, apiVars, groupVars>>

\* line 344: items of parse_affiliations
ParseAffiliations ==
    /\ ppc = "aff_items"
    /\ loc' = [loc EXCEPT !.items = AffiliationItems(loc.records)]
    /\ counts' = counts
    /\ ppc' = "dedup_affiliations"
    /\ UNCHANGED <<db, tx, ins, rerun, disk, dedupVars, collectVars, annVars, apiVars, groupVars>>

\* line 347: unique_dicts(flatten_lists([d[0] for d in items]))
DedupAffiliations ==
    /\ ppc = "dedup_affiliations"
    /\ loc' = [loc EXCEPT !.tmp = Deduplicated(Component(loc.items, 1), "")]
    /\ counts' = counts
    /\ ppc' = "filter_affiliations"
    /\ UNCHANGED <<db, tx, ins, rerun, disk, dedupVars, collectVars, annVars, apiVars, groupVars>>

\* lines 345-349: affiliations, those whose id is not persisted
FilterAffiliations ==
    /\ ppc = "filter_affiliations"
    /\ loc' = [loc EXCEPT !.Affiliation =
                              ListToBag(filter_against_persisted(loc.tmp, "id", loc.aff_ids)),
                          !.tmp = <<>>, !.filtered = @ \cup {"Affiliation"}]
    /\ counts' = counts
    /\ ppc' = "paper_author_aff"
    /\ UNCHANGED <<db, tx, ins, rerun, disk, dedupVars, collectVars, annVars, apiVars, groupVars>>

\* lines 350-354: paper_author_aff; the two counts are logged and parsing
\* has completed
DedupPaperAuthorAff ==
    /\ ppc = "paper_author_aff"
    /\ loc' = [loc EXCEPT !.AuthorAffiliation =
                              ListToBag(Deduplicated(Component(loc.items, 2), ""))]
    /\ counts' = counts \cup {<<"Affiliation", BagCardinality(loc["Affiliation"])>>,
                              <<"AuthorAffiliation", Len(Deduplicated(Component(loc.items, 2), ""))>>}
    /\ ppc' = "insert"
    /\ UNCHANGED <<db, tx, ins, rerun, disk, dedupVars, collectVars, annVars, apiVars, groupVars>>

\* storage after an earlier run that committed the records raw
StorageAfter(raw) ==
    LET records == NewRecords(raw, {}) IN
    [Paper |-> ListToBag(Papers(records)),
     Journal |-> ListToBag(Journals(records)),
     Conference |-> ListToBag(Conferences(records)),
     Author |-> ListToBag(Authors(records, {})),
     PaperAuthor |-> ListToBag(PaperWithAuthors(records)),
     FieldOfStudy |-> ListToBag(FieldsOfStudy(records, {})),
     PaperFieldsOfStudy |-> ListToBag(PaperWithFos(records)),
     Affiliation |-> ListToBag(Affiliations(records, {})),
     AuthorAffiliation |-> ListToBag(PaperAuthorAff(records))]

\* parse_mag is entered on artifacts that collect_mag has left, with storage
\* empty or holding paper 1
InitSteps ==
    /\ disk \in Disks
    /\ db \in {EmptyDb, StorageAfter(<<R1>>)}
    /\ tx = EmptyDb /\ loc = EmptyStepLoc
    /\ ppc = "start" /\ ins = 0 /\ rerun = FALSE
    /\ counts = {}
    /\ DedupIdle
    /\ CollectIdle
    /\ AnnIdle
    /\ GroupIdle

NextSteps ==
    \/ OpenSession
    \/ ReadFile
    \/ ReadIds
    \/ DedupPapers
    \/ FilterPapers
    \/ ParsePapers
    \/ ParseJournals
    \/ ParseConferences
    \/ ParseAuthors
    \/ DedupAuthors
    \/ FilterAuthors
    \/ DedupPaperWithAuthors
    \/ ParseFos
    \/ DedupPaperWithFos
    \/ DedupFos
    \/ FilterFos
    \/ ParseAffiliations
    \/ DedupAffiliations
    \/ FilterAffiliations
    \/ DedupPaperAuthorAff
    \/ InsertPaper
    \/ InsertJournal
    \/ InsertConference
    \/ InsertAuthor
    \/ InsertPaperAuthor
    \/ InsertFieldOfStudy
    \/ InsertPaperFieldsOfStudy
    \/ InsertAffiliation
    \/ InsertAuthorAffiliation
    \/ InsertRaises
    \/ Commit
    \/ CommitRaises

\* One run of parse_mag, statement by statement.
SpecSteps == InitSteps /\ [][NextSteps]_vars

\* no two elements of l agree on the key k, or are equal when k is ""
NoDuplicates(l, k) ==
    \A a, b \in DOMAIN l :
        a # b => IF k = "" THEN l[a] # l[b] ELSE Get(l[a], k) # Get(l[b], k)

\* the statements that filter against the persisted identifiers, each with
\* the key of its within-batch dedup
FilterStatements ==
    {<<"filter_papers", "Id">>, <<"filter_authors", "id">>,
     <<"filter_fos", "">>, <<"filter_affiliations", "">>}

\* C17: the list a persisted-identifier filter is applied to is the output of
\* the within-batch dedup, and all four filters have run before the first
\* bulk insert.
C17_FilterAfterDedup ==
    /\ \A f \in FilterStatements : ppc = f[1] => NoDuplicates(loc.tmp, f[2])
    /\ ppc \in {"insert", "commit", "done", "failed"} => loc.filtered = CoreTables
    /\ (ins > 0 \/ tx # EmptyDb) => loc.filtered = CoreTables

\* C17 witness: of three records read, one fell to the dedup and one to the
\* filter against the persisted papers, and the inserts have begun.
C17_Witness ==
    /\ ppc = "insert" /\ ins = 1
    /\ Len(loc.raw) = 3
    /\ loc.paper_ids = {1}
    /\ Ids(loc.data, "Id") = {2}
    /\ loc.filtered = CoreTables

-----------------------------------------------------------------------------
\* One run of the flow, from collect_mag to the commit of parse_mag

\* the flow is started on empty tables, over the artifacts of an earlier run
InitRun ==
    /\ with_doi \in BOOLEAN
    /\ windows \in 1..MaxWindows
    /\ w = 0 /\ i = 0 /\ offset = 0 /\ has_content = FALSE
    /\ data = <<>> /\ log = <<>> /\ cpc = "for"
    /\ disk \in StaleDisks
    /\ db = EmptyDb /\ tx = EmptyDb /\ loc = EmptyStepLoc
    /\ ppc = "off" /\ ins = 0 /\ rerun = FALSE
    /\ counts = {}
    /\ DedupIdle
    /\ AnnIdle
    /\ GroupIdle

\* the flow moves from collect_mag to parse_mag
EnterParseMag ==
    /\ cpc = "done" /\ ppc = "off"
    /\ ppc' = "start"
    /\ UNCHANGED <<db, tx, loc, ins, rerun, counts, disk, dedupVars, collectVars, annVars, apiVars, groupVars>>

NextRun ==
    \/ EnterWindow
    \/ Query
    \/ QueryRaises
    \/ Store
    \/ LeaveWindow
    \/ FinishCollect
    \/ EnterParseMag
    \/ OpenSession
    \/ ReadFile
    \/ ReadIds
    \/ DedupPapers
    \/ FilterPapers
    \/ ParsePapers
    \/ ParseJournals
    \/ ParseConferences
    \/ ParseAuthors
    \/ DedupAuthors
    \/ FilterAuthors
    \/ DedupPaperWithAuthors
    \/ ParseFos
    \/ DedupPaperWithFos
    \/ DedupFos
    \/ FilterFos
    \/ ParseAffiliations
    \/ DedupAffiliations
    \/ FilterAffiliations
    \/ DedupPaperAuthorAff
    \/ InsertPaper
    \/ InsertJournal
    \/ InsertConference
    \/ InsertAuthor
    \/ InsertPaperAuthor
    \/ InsertFieldOfStudy
    \/ InsertPaperFieldsOfStudy
    \/ InsertAffiliation
    \/ InsertAuthorAffiliation
    \/ InsertRaises
    \/ Commit
    \/ CommitRaises

\* One run of the flow up to the end of parse_mag.
SpecRun == InitRun /\ [][NextRun]_vars

\* the statements of parse_mag that load and normalize, by their position
Normalizing ==
    {"start", "read", "papers", "journals", "conferences", "author_items",
     "fos_items", "aff_items"}

\* the statements of parse_mag that deduplicate or filter, by their position
Deduping ==
    {"dedup_papers", "filter_papers", "dedup_authors", "filter_authors",
     "paper_with_authors", "paper_with_fos", "dedup_fos", "filter_fos",
     "dedup_affiliations", "filter_affiliations", "paper_author_aff"}

\* the stage of the run, by the statement that runs next; a run that has
\* raised stays in the stage that raised
Stage ==
    IF ppc = "off" THEN "FETCHING"
    ELSE IF ppc \in Normalizing THEN "NORMALIZING"
    ELSE IF ppc \in Deduping THEN "DEDUPING"
    ELSE IF ppc = "done" THEN "DONE"
    ELSE "COMMITTING"

StageRank(st) ==
    CASE st = "FETCHING" -> 1
      [] st = "NORMALIZING" -> 2
      [] st = "DEDUPING" -> 3
      [] st = "COMMITTING" -> 4
      [] st = "DONE" -> 5

\* the stages with normalization and deduplication taken as one
Phase == IF Stage \in {"NORMALIZING", "DEDUPING"} THEN "PARSING" ELSE Stage

PhaseRank(ph) == IF ph = "PARSING" THEN 2 ELSE StageRank(ph)

\* the run has raised
Halted == cpc = "raised" \/ ppc = "failed"

\* a step is taken by a run that has not raised, never deduplicates after a
\* write, and leaves the artifacts as collect_mag wrote them
HaltsAndKeeps ==
    /\ ~Halted
    /\ ppc \in Deduping => (ins = 0 /\ tx = EmptyDb /\ db' = db)
    /\ Stage # "FETCHING" => disk' = disk
    /\ Halted' => disk' = disk

-----------------------------------------------------------------------------
\* collect_mag against an API that holds given pages for each window

\* a page the API holds: an entity with a DOI, or one without
HeldPages == {<<R1>>, <<R4>>}

\* what the API can hold for a window: up to MaxHeld pages, then its empty page
Held == SeqsUpTo(HeldPages, MaxHeld)

\* data["entities"] of a request for window v at offset o
PageAt(v, o) ==
    LET n == (o \div query_count) + 1 IN
    IF n <= Len(api[v + 1]) THEN api[v + 1][n] ELSE <<>>

InitFetch ==
    /\ with_doi \in BOOLEAN
    /\ windows \in 1..MaxWindows
    /\ api \in [1..windows -> Held]
    /\ w = 0 /\ i = 0 /\ offset = 0 /\ has_content = FALSE
    /\ data = <<>> /\ log = <<>> /\ cpc = "for"
    /\ disk \in StaleDisks
    /\ DedupIdle
    /\ ParseIdle
    /\ ann = <<>> /\ apc = "off"
    /\ GroupIdle

\* data = query_mag_api(...) returns the page the API holds at the offset
QueryHeld ==
    /\ cpc = "while" /\ has_content
    /\ data' = PageAt(w, offset)
    /\ log' = Append(log, [window |-> w, offset |-> offset, i |-> i,
                           raised |-> FALSE, entities |-> PageAt(w, offset)])
    /\ cpc' = "store"
    /\ UNCHANGED <<with_doi, windows, w, i, offset, has_content, disk, dedupVars,
                   parseVars, annVars, apiVars, groupVars>>

NextFetch ==
    \/ EnterWindow
    \/ QueryHeld
    \/ QueryRaises
    \/ Store
    \/ LeaveWindow
    \/ FinishCollect

\* One collect_mag run against a given API.
SpecFetch == InitFetch /\ [][NextFetch]_vars

\* the entities of a page that collect_mag is to keep
Qualifying(page) == Elems(Results(page))

\* C21: once a window is finished, every entity the API holds for it before
\* its first empty page, and that passes the DOI filter when with_doi is set,
\* is in some page artifact.
C21_FetchComplete ==
    \A v \in 0..(windows - 1) :
        WindowDone(v) =>
            \A n \in DOMAIN api[v + 1] : \A e \in Qualifying(api[v + 1][n]) :
                \E j \in DOMAIN disk : e \in Elems(disk[j])

-----------------------------------------------------------------------------
\* allocate_in_group, and the labels fos_groups counts

\* any(fos in lst for fos in group)
AnyIn(lst, group) == \E n \in DOMAIN group : \E m \in DOMAIN lst : lst[m] = group[n]

\* allocate_in_group(lst, group1, group2)
allocate_in_group(lst, group1, group2) ==
    IF AnyIn(lst, group1) /\ AnyIn(lst, group2) THEN "ai_ci"
    ELSE IF AnyIn(lst, group1) THEN "ci"
    ELSE "ai"

\* names of fields of study
FosNames == {"a", "b"}

\* pfos[pfos['type']=='CI'] and pfos[pfos['type']=='AI_CI']
CountedLabels == {"CI", "AI_CI"}

\* a paper's fields of study and the two groups are given
InitGroups ==
    /\ norm_name \in SeqsUpTo(FosNames, MaxLen)
    /\ ci_fos \in SeqsUpTo(FosNames, MaxLen)
    /\ ai_fos \in SeqsUpTo(FosNames, MaxLen)
    /\ type = "" /\ logged = <<>> /\ gpc = "idle"
    /\ DedupIdle
    /\ CollectIdle
    /\ disk = <<>>
    /\ ParseIdle
    /\ ann = <<>> /\ apc = "off"
    /\ api = <<>>

\* the function is called with the list and both groups
AllocateInGroup ==
    /\ gpc = "idle"
    /\ type' = allocate_in_group(norm_name, ci_fos, ai_fos)
    /\ gpc' = "returned"
    /\ UNCHANGED <<norm_name, ci_fos, ai_fos, logged, dedupVars, collectVars, disk,
                   parseVars, annVars, apiVars>>

\* line 417: apply(allocate_in_group, args=([self.fos_subset])) calls the
\* function with the list and one more argument, which raises a TypeError
FosGroupsApply ==
    /\ gpc = "idle"
    /\ gpc' = "raised"
    /\ UNCHANGED <<norm_name, ci_fos, ai_fos, type, logged, dedupVars, collectVars,
                   disk, parseVars, annVars, apiVars>>

\* lines 418-419: the papers whose label is 'CI', and 'AI_CI', are counted
FosGroupsLog ==
    /\ gpc = "returned"
    /\ logged' = [l \in CountedLabels |-> IF type = l THEN 1 ELSE 0]
    /\ gpc' = "logged"
    /\ UNCHANGED <<norm_name, ci_fos, ai_fos, type, dedupVars, collectVars, disk,
                   parseVars, annVars, apiVars>>

NextGroups ==
    \/ AllocateInGroup
    \/ FosGroupsApply
    \/ FosGroupsLog

\* One paper labelled, and counted by fos_groups.
SpecGroups == InitGroups /\ [][NextGroups]_vars

\* the label is the one the membership of the list in the two groups calls for
LabelAsClaimed ==
    LET in1 == Elems(norm_name) \cap Elems(ci_fos) # {}
        in2 == Elems(norm_name) \cap Elems(ai_fos) # {}
    IN  /\ type = "ai_ci" <=> (in1 /\ in2)
        /\ type = "ci" <=> (in1 /\ ~in2)
        /\ type = "ai" <=> ~in1

\* the labels allocate_in_group returns, over every list and pair of groups
Returnable ==
    {allocate_in_group(l, g1, g2) :
        l \in SeqsUpTo(FosNames, 1), g1 \in SeqsUpTo(FosNames, 1),
        g2 \in SeqsUpTo(FosNames, 1)}

\* C22: the label returned is "ai_ci" exactly for a list with a member of
\* each group, "ci" exactly for a list with a member of group1 and none of
\* group2, "ai" otherwise; and the labels fos_groups counts are labels the
\* function returns.
C22_LabelsAsCounted ==
    /\ gpc \in {"returned", "logged"} => LabelAsClaimed
    /\ gpc = "logged" => CountedLabels \subseteq Returnable

====
